---- MODULE Spec2Model ----
(***************************************************************************)
(* Model of scripts/check-api-error-handling.py: a line-oriented checker   *)
(* of Go handler files.  check_file applies five textual rules to one      *)
(* file and returns a list of findings; main scans every *.go file of the  *)
(* handlers directory, collects the findings and exits with 0 or 1.        *)
(*                                                                         *)
(* A file is a sequence of lines (content.split('\n')).  A line is the Go  *)
(* text itself; what the checker can observe of a line is which of its     *)
(* substrings and regular expressions occur in it.  LineFacts records      *)
(* that relation for the lines the model draws its files from.             *)
(***************************************************************************)
EXTENDS Integers, Sequences, FiniteSets, TLC

VARIABLES root_exists, dir, go_files, idx, issues, pc, exit_code

vars == <<root_exists, dir, go_files, idx, issues, pc, exit_code>>

(***************************************************************************)
(* Bounds of the model.                                                    *)
(***************************************************************************)
\* number of files in the handlers directory
MaxFiles == 2

\* number of non-blank statements placed after the first line of a file
MaxStmts == 2

(***************************************************************************)
(* Program constants: the look-ahead spans of the rules.                   *)
(***************************************************************************)
\* lines[i-1:min(i+5, len(lines))]
EnvelopeSpan == 5

\* lines[i-1:min(i+10, len(lines))]
CodeSpan == 10

\* range(i, min(i+20, len(lines)))
GuardSpan == 20

\* lines[err_check_start:min(err_check_start+15, len(lines))]
BlockSpan == 15

\* lines[i-1:min(i+5, len(lines))]
LogSpan == 5

(***************************************************************************)
(* Which substrings ('x' in line) and patterns (re.search) occur in a      *)
(* line.  "lower:error" is 'error' in line.lower(); "re:..." are the       *)
(* regular expressions of check_file.                                      *)
(***************************************************************************)
LineFacts ==
     (""
        :> {})
  @@
     ("package handlers"
        :> {})
  @@
     ("import \"gorm.io/gorm\""
        :> {"gorm.io/gorm"})
  @@
     ("c.JSON(http.StatusNotFound, gin.H{\"error\": \"not found\"})"
        :> {"gin.H", "StatusNotFound", "lower:error", "re:status"})
  @@
     ("c.JSON(http.StatusBadRequest, gin.H{"
        :> {"gin.H", "StatusBadRequest", "re:status"})
  @@
     ("\"error\": err.Error(),"
        :> {"lower:error"})
  @@
     ("\"message\": \"saved\","
        :> {})
  @@
     ("c.JSON(http.StatusInternalServerError, gin.H{\"message\": msg})"
        :> {"gin.H", "StatusInternalServerError", "lower:error", "re:status"})
  @@
     ("c.JSON(http.StatusOK, gin.H{\"error\": nil})"
        :> {"gin.H", "lower:error"})
  @@
     ("c.JSON(http.StatusForbidden, models.ErrorResponse{"
        :> {"models.ErrorResponse", "lower:error", "re:status", "re:error_response"})
  @@
     ("c.AbortWithStatus(http.StatusUnauthorized)"
        :> {"re:status"})
  @@
     ("c.JSON(http.StatusBadRequest, models.ErrorResponse{"
        :> {"models.ErrorResponse", "StatusBadRequest", "lower:error", "re:status", "re:error_response"})
  @@
     ("Code: \"INVALID_REQUEST\","
        :> {"Code"})
  @@
     ("Message: \"invalid request\","
        :> {})
  @@
     ("c.JSON(http.StatusBadRequest, models.ErrorResponse{Code: \"INVALID_REQUEST\"})"
        :> {"models.ErrorResponse", "Code", "StatusBadRequest", "lower:error", "re:status", "re:error_response"})
  @@
     ("c.JSON(http.StatusNotFound,"
        :> {"StatusNotFound", "re:status"})
  @@
     ("models.ErrorResponse{"
        :> {"models.ErrorResponse", "lower:error"})
  @@
     ("ErrorCode: code,"
        :> {"Code", "ErrorCode", "lower:error"})
  @@
     ("h.db.First(&analysis, id)"
        :> {"First", "re:First"})
  @@
     ("h.db.Find(&insights)"
        :> {"Find", "re:Find"})
  @@
     ("analysis, err := h.repo.GetByID(id)"
        :> {"re:GetByID", "re:GetBy"})
  @@
     ("user, err := h.repo.GetByName(name)"
        :> {"re:GetBy"})
  @@
     ("insight, err := h.insightRepo.GetByID(req.FindingID)"
        :> {"Find", "re:GetByID", "re:GetBy"})
  @@
     ("if err := h.db.First(&analysis, id).Error; err != nil {"
        :> {"if err :=", "First", "lower:error", "re:First"})
  @@
     ("if err != nil {"
        :> {"if err != nil"})
  @@
     ("if errors.Is(err, gorm.ErrRecordNotFound) {"
        :> {"ErrRecordNotFound", "errors.Is", "gorm.ErrRecordNotFound", "lower:error"})
  @@
     ("if err != nil && errors.Is(err, gorm.ErrRecordNotFound) {"
        :> {"if err != nil", "ErrRecordNotFound", "errors.Is", "gorm.ErrRecordNotFound", "lower:error"})
  @@
     ("c.JSON(http.StatusNotFound, models.ErrorResponse{Code: \"ANALYSIS_NOT_FOUND\"})"
        :> {"models.ErrorResponse", "Code", "StatusNotFound", "ANALYSIS_NOT_FOUND", "NOT_FOUND", "lower:error", "re:status", "re:error_response"})
  @@
     ("c.JSON(http.StatusNotFound, models.ErrorResponse{Code: \"MISSING\"})"
        :> {"models.ErrorResponse", "Code", "StatusNotFound", "lower:error", "re:status", "re:error_response"})
  @@
     ("c.JSON(http.StatusInternalServerError, models.ErrorResponse{Code: \"DB_ERROR\"})"
        :> {"models.ErrorResponse", "Code", "StatusInternalServerError", "lower:error", "re:status", "re:error_response"})
  @@
     ("h.log.Error(\"query failed\","
        :> {"lower:error", "re:log_error"})
  @@
     ("zap.String(\"error_code\", \"DB_ERROR\"),"
        :> {"error_code", "lower:error"})
  @@
     ("zap.String(\"request_id\", rid),"
        :> {"request_id"})
  @@
     ("log.Error(\"bad input\", zap.Error(err))"
        :> {"lower:error", "re:log_error"})
  @@
     ("h.log.Error(\"query failed\", zap.String(\"error_code\", code), zap.String(\"request_id\", rid))"
        :> {"error_code", "request_id", "lower:error", "re:log_error"})
  @@
     ("RequestID: rid,"
        :> {"RequestID"})

Min(a, b) == IF a < b THEN a ELSE b

\* needle in line
Contains(needle, line) == needle \in LineFacts[line]

\* re.search(pattern, line)
Search(pattern, line) == pattern \in LineFacts[line]

\* needle in '\n'.join(text): no needle of the checker holds a newline
ContainsText(needle, text) == \E k \in DOMAIN text : Contains(needle, text[k])

\* needle in content
ContainsContent(needle, lines) == ContainsText(needle, lines)

\* Python's lines[lo:hi] for 0 <= lo, as a sequence of lines
Slice(lines, lo, hi) == SubSeq(lines, lo + 1, Min(hi, Len(lines)))

\* for i, line in enumerate(lines, 1): the line numbers that hit, in the
\* order of the loop
InLoopOrder(lines, hits) ==
  SelectSeq([i \in 1..Len(lines) |-> i], LAMBDA i : i \in hits)

Finding(path, line, severity, message) ==
  [file |-> path, line |-> line, severity |-> severity, message |-> message]

MsgCannotRead == "cannot read file"
MsgGinH == "gin.H used instead of models.ErrorResponse"
MsgNoCode == "ErrorResponse lacks the Code field"
MsgNotFoundCode == "a 404 should use a specific error code"
MsgUnchecked == "the query should check gorm.ErrRecordNotFound and return 404"
MsgErrorCode == "the error log should carry error_code"
MsgRequestId == "the error log should carry request_id"

has_gorm_import(lines) ==
  ContainsContent("gorm.io/gorm", lines) \/ ContainsContent("gorm.ErrRecordNotFound", lines)

(***************************************************************************)
(* Rule 1: gin.H instead of models.ErrorResponse at an error status.       *)
(***************************************************************************)
EnvelopeWindow(lines, i) == Slice(lines, i - 1, i + EnvelopeSpan)

\* EnvelopeHit without the test for an 'error' token in the window
EnvelopeHitAnyMap(lines, i) ==
  /\ Search("re:status", lines[i])
  /\ LET next_lines == EnvelopeWindow(lines, i)
     IN /\ ContainsText("gin.H", next_lines)
        /\ ~ContainsText("models.ErrorResponse", next_lines)

EnvelopeHit(lines, i) ==
  /\ Search("re:status", lines[i])
  /\ LET next_lines == EnvelopeWindow(lines, i)
     IN /\ ContainsText("gin.H", next_lines)
        /\ ~ContainsText("models.ErrorResponse", next_lines)
        /\ ContainsText("lower:error", next_lines)

Rule1(path, lines) ==
  LET hits == InLoopOrder(lines, {i \in DOMAIN lines : EnvelopeHit(lines, i)})
  IN [k \in DOMAIN hits |-> Finding(path, hits[k], "error", MsgGinH)]

(***************************************************************************)
(* Rule 2: an ErrorResponse without the Code field.                        *)
(***************************************************************************)
CodeWindow(lines, i) == Slice(lines, i - 1, i + CodeSpan)

\* CodeHit looking for Code on the trigger line only
CodeHitTriggerLine(lines, i) ==
  /\ Search("re:error_response", lines[i])
  /\ ~Contains("Code", lines[i])

CodeHit(lines, i) ==
  /\ Search("re:error_response", lines[i])
  /\ ~ContainsText("Code", CodeWindow(lines, i))

Rule2(path, lines) ==
  LET hits == InLoopOrder(lines, {i \in DOMAIN lines : CodeHit(lines, i)})
  IN [k \in DOMAIN hits |-> Finding(path, hits[k], "error", MsgNoCode)]

(***************************************************************************)
(* Rule 3: a database query whose error is not checked for                 *)
(* gorm.ErrRecordNotFound.  The patterns are tried in turn, each over the  *)
(* whole file.                                                             *)
(***************************************************************************)
db_query_patterns == <<"re:First", "re:Find", "re:GetByID", "re:GetBy">>

IsGuard(line) == Contains("if err != nil", line) \/ Contains("if err :=", line)

\* GuardRange without the clamp to len(lines)
GuardRangeUnclamped(lines, i) == i .. (i + GuardSpan - 1)

\* The 0-based indices j the guard scan of trigger line i runs over.
GuardRange(lines, i) == i .. (Min(i + GuardSpan, Len(lines)) - 1)

\* The indices of GuardRange that hold a guard; the scan breaks at the first.
GuardHits(lines, i) ==
  {j \in GuardRange(lines, i) : j < Len(lines) /\ IsGuard(lines[j + 1])}

\* lines[j] raises IndexError: the scan reaches an index past the last line
\* before it finds a guard.
GuardScanRaises(lines, i) ==
  /\ GuardHits(lines, i) = {}
  /\ \E j \in GuardRange(lines, i) : j >= Len(lines)

\* err_check_start: the 0-based index of the first guard, 0 (falsy, as None
\* is) when there is none.
err_check_start(lines, i) ==
  LET hits == GuardHits(lines, i)
  IN IF hits = {} THEN 0 ELSE CHOOSE j \in hits : \A h \in hits : j <= h

ErrorBlock(lines, start) == Slice(lines, start, start + BlockSpan)

\* elif has_gorm_import and 'First' in line or 'Find' in line
UncheckedCond(gorm, line) ==
  (gorm /\ Contains("First", line)) \/ Contains("Find", line)

\* The findings one trigger line adds: none, the 404 warning at the guard
\* line, or the unchecked-query warning at the trigger line.
QueryFindings(path, lines, i) ==
  LET start == err_check_start(lines, i)
      error_block == ErrorBlock(lines, start)
  IN IF start = 0
       THEN <<>>
     ELSE IF ContainsText("ErrRecordNotFound", error_block)
             \/ ContainsText("errors.Is", error_block)
       THEN IF /\ ContainsText("StatusNotFound", error_block)
               /\ ~ContainsText("ANALYSIS_NOT_FOUND", error_block)
               /\ ~ContainsText("INSIGHT_NOT_FOUND", error_block)
               /\ ~ContainsText("NOT_FOUND", error_block)
              THEN <<Finding(path, start + 1, "warning", MsgNotFoundCode)>>
              ELSE <<>>
     ELSE IF UncheckedCond(has_gorm_import(lines), lines[i])
       THEN <<Finding(path, i, "warning", MsgUnchecked)>>
     ELSE <<>>

RECURSIVE QueryScan(_, _, _, _)
\* the findings of one pattern for the trigger lines from..len(lines)
QueryScan(path, lines, pattern, from) ==
  IF from > Len(lines)
    THEN <<>>
    ELSE (IF Search(pattern, lines[from])
            THEN QueryFindings(path, lines, from)
            ELSE <<>>)
         \o QueryScan(path, lines, pattern, from + 1)

\* for i, line in enumerate(lines, 1) under one pattern
QueryPass(path, lines, pattern) == QueryScan(path, lines, pattern, 1)

RECURSIVE LineMajorScan(_, _, _)
\* Rule3 with the loops exchanged: every pattern is tried on a line before
\* the next line is looked at
LineMajorScan(path, lines, from) ==
  IF from > Len(lines)
    THEN <<>>
    ELSE LET At(p) == IF Search(db_query_patterns[p], lines[from])
                        THEN QueryFindings(path, lines, from)
                        ELSE <<>>
         IN At(1) \o At(2) \o At(3) \o At(4)
            \o LineMajorScan(path, lines, from + 1)

Rule3LineMajor(path, lines) == LineMajorScan(path, lines, 1)

Rule3(path, lines) ==
  QueryPass(path, lines, db_query_patterns[1])
  \o QueryPass(path, lines, db_query_patterns[2])
  \o QueryPass(path, lines, db_query_patterns[3])
  \o QueryPass(path, lines, db_query_patterns[4])

\* an uncaught IndexError in the guard scan of some trigger line
Rule3Raises(lines) ==
  \E p \in DOMAIN db_query_patterns : \E i \in DOMAIN lines :
    Search(db_query_patterns[p], lines[i]) /\ GuardScanRaises(lines, i)

(***************************************************************************)
(* Rules 4 and 5: an error log without error_code, without request_id.     *)
(***************************************************************************)
LogWindow(lines, i) == Slice(lines, i - 1, i + LogSpan)

ErrorCodeHit(lines, i) ==
  /\ Search("re:log_error", lines[i])
  /\ LET next_lines == LogWindow(lines, i)
     IN /\ ~ContainsText("error_code", next_lines)
        /\ ~ContainsText("ErrorCode", next_lines)
        /\ \/ ContainsText("StatusInternalServerError", next_lines)
           \/ ContainsText("StatusNotFound", next_lines)

\* RequestIdHit with the status list of the error_code check
RequestIdHitNoBadRequest(lines, i) ==
  /\ Search("re:log_error", lines[i])
  /\ LET next_lines == LogWindow(lines, i)
     IN /\ ~ContainsText("request_id", next_lines)
        /\ ~ContainsText("RequestID", next_lines)
        /\ \/ ContainsText("StatusInternalServerError", next_lines)
           \/ ContainsText("StatusNotFound", next_lines)

RequestIdHit(lines, i) ==
  /\ Search("re:log_error", lines[i])
  /\ LET next_lines == LogWindow(lines, i)
     IN /\ ~ContainsText("request_id", next_lines)
        /\ ~ContainsText("RequestID", next_lines)
        /\ \/ ContainsText("StatusInternalServerError", next_lines)
           \/ ContainsText("StatusNotFound", next_lines)
           \/ ContainsText("StatusBadRequest", next_lines)

Rule4(path, lines) ==
  LET hits == InLoopOrder(lines, {i \in DOMAIN lines : ErrorCodeHit(lines, i)})
  IN [k \in DOMAIN hits |-> Finding(path, hits[k], "warning", MsgErrorCode)]

Rule5(path, lines) ==
  LET hits == InLoopOrder(lines, {i \in DOMAIN lines : RequestIdHit(lines, i)})
  IN [k \in DOMAIN hits |-> Finding(path, hits[k], "warning", MsgRequestId)]

(***************************************************************************)
(* check_file: the read, then the five rules in their order.               *)
(***************************************************************************)
ReadFailure(path) == <<Finding(path, 0, "error", MsgCannotRead)>>

RuleFindings(path, lines) ==
  Rule1(path, lines) \o Rule2(path, lines) \o Rule3(path, lines)
  \o Rule4(path, lines) \o Rule5(path, lines)

check_file(path, file) ==
  IF ~file.readable
    THEN ReadFailure(path)
    ELSE RuleFindings(path, file.lines)

\* check_file without the try/except around read_text
check_file_raises_on_read(file) == ~file.readable \/ Rule3Raises(file.lines)

\* check_file ends in an uncaught exception
check_file_raises(file) == file.readable /\ Rule3Raises(file.lines)

(***************************************************************************)
(* main: the directory, the glob, the scan loop and the exit code.         *)
(***************************************************************************)
\* [i for i in issues if i['severity'] == 'error']
errors(iss) == SelectSeq(iss, LAMBDA f : f.severity = "error")

\* [i for i in issues if i['severity'] == 'warning']
warnings(iss) == SelectSeq(iss, LAMBDA f : f.severity = "warning")

\* ExitCode failing the run on any finding, warnings included
ExitCodeAnyFinding(iss) == IF iss # <<>> THEN 1 ELSE 0

\* sys.exit(1) if errors else sys.exit(0)
ExitCode(iss) == IF errors(iss) # <<>> THEN 1 ELSE 0

\* The orders glob('*.go') may list the files of the directory in.
GlobOrders(n) == {s \in [1..n -> 1..n] : \A a, b \in 1..n : s[a] = s[b] => a = b}

\* if not backend_handlers_dir.exists(): sys.exit(1)
RootMissing ==
  /\ pc = "start"
  /\ ~root_exists
  /\ exit_code' = <<1>>
  /\ pc' = "exited"
  /\ UNCHANGED <<root_exists, dir, go_files, idx, issues>>

RootFound ==
  /\ pc = "start"
  /\ root_exists
  /\ pc' = "glob"
  /\ UNCHANGED <<root_exists, dir, go_files, idx, issues, exit_code>>

\* if not go_files: sys.exit(0)
GlobEmpty ==
  /\ pc = "glob"
  /\ Len(dir) = 0
  /\ go_files' = <<>>
  /\ exit_code' = <<0>>
  /\ pc' = "exited"
  /\ UNCHANGED <<root_exists, dir, idx, issues>>

GlobFiles ==
  /\ pc = "glob"
  /\ Len(dir) > 0
  /\ go_files' \in GlobOrders(Len(dir))
  /\ idx' = 1
  /\ pc' = "scan"
  /\ UNCHANGED <<root_exists, dir, issues, exit_code>>

\* for go_file in go_files: issues.extend(check_file(go_file)).  An
\* exception check_file does not catch ends the process with a traceback
\* and exit code 1.
ScanFile ==
  /\ pc = "scan"
  /\ idx <= Len(go_files)
  /\ LET path == go_files[idx]
     IN IF check_file_raises(dir[path])
          THEN /\ pc' = "crashed"
               /\ exit_code' = <<1>>
               /\ UNCHANGED <<idx, issues>>
          ELSE /\ issues' = issues \o check_file(path, dir[path])
               /\ idx' = idx + 1
               /\ UNCHANGED <<pc, exit_code>>
  /\ UNCHANGED <<root_exists, dir, go_files>>

\* if issues: ... sys.exit(1) if errors else sys.exit(0)
ReportIssues ==
  /\ pc = "scan"
  /\ idx > Len(go_files)
  /\ issues # <<>>
  /\ exit_code' = <<ExitCode(issues)>>
  /\ pc' = "exited"
  /\ UNCHANGED <<root_exists, dir, go_files, idx, issues>>

\* else: sys.exit(0)
ReportClean ==
  /\ pc = "scan"
  /\ idx > Len(go_files)
  /\ issues = <<>>
  /\ exit_code' = <<0>>
  /\ pc' = "exited"
  /\ UNCHANGED <<root_exists, dir, go_files, idx, issues>>

Next ==
  \/ RootMissing
  \/ RootFound
  \/ GlobEmpty
  \/ GlobFiles
  \/ ScanFile
  \/ ReportIssues
  \/ ReportClean

(***************************************************************************)
(* The files the specifications scan.  A file is a first line followed by  *)
(* statements, each after a gap of blank lines; the gaps lie on both       *)
(* sides of the rules' spans.                                              *)
(***************************************************************************)
Blanks(n) == [k \in 1..n |-> ""]

RECURSIVE Bodies(_, _, _)
Bodies(alphabet, gaps, k) ==
  IF k = 0
    THEN {<<>>}
    ELSE LET shorter == Bodies(alphabet, gaps, k - 1)
         IN shorter \cup
            {b \o Blanks(g) \o <<l>> : b \in shorter, g \in gaps, l \in alphabet}

Files(headers, alphabet, gaps, k) ==
  {<<h>> \o b : h \in headers, b \in Bodies(alphabet, gaps, k)}

Readable(lines) == [readable |-> TRUE, lines |-> lines]

Unreadable == [readable |-> FALSE, lines |-> <<>>]

\* a directory with no file, or with one file of the family
OneFileDirs(family) == {<<>>} \cup {<<Readable(f)>> : f \in family}

InitWith(dirs) ==
  /\ root_exists \in BOOLEAN
  /\ dir \in dirs
  /\ go_files = <<>>
  /\ idx = 1
  /\ issues = <<>>
  /\ pc = "start"
  /\ exit_code = <<>>

\* Files for main: unreadable, clean, with an error, with warnings only,
\* with both.
SampleFiles ==
  { Unreadable,
    Readable(<<"package handlers">>),
    Readable(<<"package handlers",
               "c.JSON(http.StatusNotFound, gin.H{\"error\": \"not found\"})">>),
    Readable(<<"package handlers",
               "log.Error(\"bad input\", zap.Error(err))",
               "c.JSON(http.StatusInternalServerError, models.ErrorResponse{Code: \"DB_ERROR\"})">>),
    Readable(<<"import \"gorm.io/gorm\"",
               "h.db.Find(&insights)",
               "if err != nil {",
               "c.JSON(http.StatusBadRequest, models.ErrorResponse{">>) }

RECURSIVE SampleDirs(_)
SampleDirs(n) ==
  IF n = 0
    THEN {<<>>}
    ELSE LET shorter == SampleDirs(n - 1)
         IN shorter \cup {Append(d, f) : d \in shorter, f \in SampleFiles}

Init == InitWith(SampleDirs(MaxFiles))

Spec == Init /\ [][Next]_vars

EnvelopeLines ==
  { "c.JSON(http.StatusNotFound, gin.H{\"error\": \"not found\"})",
    "c.JSON(http.StatusBadRequest, gin.H{",
    "\"error\": err.Error(),",
    "\"message\": \"saved\",",
    "c.JSON(http.StatusInternalServerError, gin.H{\"message\": msg})",
    "c.JSON(http.StatusOK, gin.H{\"error\": nil})",
    "c.JSON(http.StatusForbidden, models.ErrorResponse{",
    "c.AbortWithStatus(http.StatusUnauthorized)" }

EnvelopeGaps == {0, EnvelopeSpan - 1, EnvelopeSpan}

EnvelopeFiles(k) == Files({"package handlers"}, EnvelopeLines, EnvelopeGaps, k)

InitEnvelope == InitWith(OneFileDirs(EnvelopeFiles(MaxStmts)))

SpecEnvelope == InitEnvelope /\ [][Next]_vars

CodeLines ==
  { "c.JSON(http.StatusBadRequest, models.ErrorResponse{",
    "Code: \"INVALID_REQUEST\",",
    "Message: \"invalid request\",",
    "c.JSON(http.StatusBadRequest, models.ErrorResponse{Code: \"INVALID_REQUEST\"})",
    "c.JSON(http.StatusNotFound,",
    "models.ErrorResponse{",
    "ErrorCode: code," }

CodeGaps == {0, CodeSpan - 1, CodeSpan}

CodeFiles(k) == Files({"package handlers"}, CodeLines, CodeGaps, k)

InitCode == InitWith(OneFileDirs(CodeFiles(MaxStmts)))

SpecCode == InitCode /\ [][Next]_vars

LogLines ==
  { "h.log.Error(\"query failed\",",
    "log.Error(\"bad input\", zap.Error(err))",
    "h.log.Error(\"query failed\", zap.String(\"error_code\", code), zap.String(\"request_id\", rid))",
    "zap.String(\"error_code\", \"DB_ERROR\"),",
    "zap.String(\"request_id\", rid),",
    "ErrorCode: code,",
    "RequestID: rid,",
    "c.JSON(http.StatusInternalServerError, models.ErrorResponse{Code: \"DB_ERROR\"})",
    "c.JSON(http.StatusNotFound, models.ErrorResponse{Code: \"ANALYSIS_NOT_FOUND\"})",
    "c.JSON(http.StatusBadRequest, models.ErrorResponse{Code: \"INVALID_REQUEST\"})" }

LogGaps == {0, LogSpan - 1, LogSpan}

LogFiles(k) == Files({"package handlers"}, LogLines, LogGaps, k)

InitLog == InitWith(OneFileDirs(LogFiles(MaxStmts)))

SpecLog == InitLog /\ [][Next]_vars

QueryHeaders == {"package handlers", "import \"gorm.io/gorm\""}

QueryLines ==
  { "h.db.First(&analysis, id)",
    "h.db.Find(&insights)",
    "analysis, err := h.repo.GetByID(id)",
    "user, err := h.repo.GetByName(name)",
    "insight, err := h.insightRepo.GetByID(req.FindingID)",
    "if err := h.db.First(&analysis, id).Error; err != nil {",
    "if err != nil {",
    "if errors.Is(err, gorm.ErrRecordNotFound) {",
    "if err != nil && errors.Is(err, gorm.ErrRecordNotFound) {",
    "c.JSON(http.StatusNotFound, models.ErrorResponse{Code: \"ANALYSIS_NOT_FOUND\"})",
    "c.JSON(http.StatusNotFound, models.ErrorResponse{Code: \"MISSING\"})" }

QueryGaps == {0, BlockSpan - 2, BlockSpan - 1, GuardSpan - 1, GuardSpan}

QueryFiles(k) == Files(QueryHeaders, QueryLines, QueryGaps, k)

InitQuery == InitWith(OneFileDirs(QueryFiles(MaxStmts)))

SpecQuery == InitQuery /\ [][Next]_vars

\* Files with triggers of every rule close together.
OrderLines ==
  { "h.db.Find(&insights)",
    "if err := h.db.First(&analysis, id).Error; err != nil {",
    "if err != nil {",
    "c.JSON(http.StatusNotFound, gin.H{\"error\": \"not found\"})",
    "c.JSON(http.StatusBadRequest, models.ErrorResponse{",
    "log.Error(\"bad input\", zap.Error(err))",
    "c.JSON(http.StatusNotFound, models.ErrorResponse{Code: \"MISSING\"})" }

OrderGaps == {0, 1}

OrderFiles(k) == Files({"import \"gorm.io/gorm\""}, OrderLines, OrderGaps, k)

InitOrder == InitWith(OneFileDirs(OrderFiles(MaxStmts + 1)))

SpecOrder == InitOrder /\ [][Next]_vars

\* Files with a trigger of every rule, at the end of the file and far from it.
BoundaryLines ==
  { "c.JSON(http.StatusNotFound, gin.H{\"error\": \"not found\"})",
    "c.JSON(http.StatusBadRequest, models.ErrorResponse{",
    "h.db.Find(&insights)",
    "if err != nil {",
    "if err != nil && errors.Is(err, gorm.ErrRecordNotFound) {",
    "c.JSON(http.StatusNotFound, models.ErrorResponse{Code: \"MISSING\"})",
    "log.Error(\"bad input\", zap.Error(err))" }

BoundaryGaps == {0, GuardSpan - 1, GuardSpan}

BoundaryFiles(k) == Files({"import \"gorm.io/gorm\""}, BoundaryLines, BoundaryGaps, k)

InitBoundary == InitWith(OneFileDirs(BoundaryFiles(MaxStmts)))

SpecBoundary == InitBoundary /\ [][Next]_vars

(***************************************************************************)
(* Properties.                                                             *)
(***************************************************************************)
\* main has scanned every file and left through sys.exit
Done == pc = "exited" /\ go_files # <<>>

\* the number of findings with this line and message
Count(iss, line, message) ==
  Cardinality({k \in DOMAIN iss : iss[k].line = line /\ iss[k].message = message})

\* the lines of the file a finding is about
LinesOf(f) == dir[f.file].lines

\* C1: main exits with 1 exactly when the scan root is missing or some
\* collected finding has severity error, with 0 in every other run, and
\* with no other code; it never ends in an uncaught exception.
C1_ExitCode ==
  /\ pc # "crashed"
  /\ pc # "exited" => exit_code = <<>>
  /\ pc = "exited" =>
       /\ exit_code \in {<<0>>, <<1>>}
       /\ exit_code = <<1>> <=>
            (~root_exists \/ \E k \in DOMAIN issues : issues[k].severity = "error")

\* a run that collected findings, all of them warnings, and exited with 0
C1_Witness ==
  /\ pc = "exited"
  /\ exit_code = <<0>>
  /\ issues # <<>>
  /\ \A k \in DOMAIN issues : issues[k].severity = "warning"

RECURSIVE ScanOf(_)
\* the findings of the rules for the readable files among paths, in order
ScanOf(paths) ==
  IF paths = <<>>
    THEN <<>>
    ELSE (IF dir[Head(paths)].readable
            THEN RuleFindings(Head(paths), dir[Head(paths)].lines)
            ELSE <<>>)
         \o ScanOf(Tail(paths))

\* C3: a file that cannot be read yields exactly one finding (line 0,
\* severity error, cannot read); the run is not aborted, every file is
\* scanned, and the findings of the readable files are what a run without
\* the unreadable files collects.
C3_ReadFailure ==
  /\ pc # "crashed"
  /\ Done =>
       /\ idx = Len(go_files) + 1
       /\ \A p \in DOMAIN dir :
            ~dir[p].readable =>
              SelectSeq(issues, LAMBDA f : f.file = p)
                = <<[file |-> p, line |-> 0, severity |-> "error",
                     message |-> MsgCannotRead]>>
       /\ SelectSeq(issues, LAMBDA f : dir[f.file].readable) = ScanOf(go_files)

\* an unreadable file scanned first, then a readable file with findings
C3_Witness ==
  /\ Done
  /\ Len(go_files) >= 2
  /\ ~dir[go_files[1]].readable
  /\ \E k \in DOMAIN issues : issues[k].file = go_files[2] /\ issues[k].line > 0

\* the lines i..i+span of the file, cut at its last line
WindowLines(lines, i, span) == {k \in i..(i + span) : k <= Len(lines)}

EnvelopeExpected(lines, i) ==
  LET W == WindowLines(lines, i, 5)
  IN /\ \E k \in W : Contains("gin.H", lines[k])
     /\ \A k \in W : ~Contains("models.ErrorResponse", lines[k])
     /\ \E k \in W : Contains("lower:error", lines[k])

\* C6: for every line with an error status constant there is exactly one
\* gin.H finding (severity error) at that line if the six lines from it on
\* hold gin.H, do not hold models.ErrorResponse and hold 'error' in any
\* case, and none otherwise.
C6_Envelope ==
  Done =>
    /\ \A k \in DOMAIN issues :
         issues[k].message = MsgGinH => issues[k].severity = "error"
    /\ \A i \in DOMAIN dir[1].lines :
         Search("re:status", dir[1].lines[i]) =>
           Count(issues, i, MsgGinH)
             = IF EnvelopeExpected(dir[1].lines, i) THEN 1 ELSE 0

\* a finding at a status line whose only gin.H is five lines further on
C6_Witness ==
  /\ Done
  /\ \E i \in DOMAIN dir[1].lines :
       /\ Search("re:status", dir[1].lines[i])
       /\ Count(issues, i, MsgGinH) = 1
       /\ i + 5 <= Len(dir[1].lines)
       /\ Contains("gin.H", dir[1].lines[i + 5])
       /\ \A k \in i..(i + 4) : ~Contains("gin.H", dir[1].lines[k])

\* C8: for every line matching c.JSON(<error status>, models.ErrorResponse{
\* there is a missing-Code finding (severity error) at that line exactly
\* when none of the eleven lines from it on holds 'Code'.
C8_CodeField ==
  Done =>
    /\ \A k \in DOMAIN issues :
         issues[k].message = MsgNoCode => issues[k].severity = "error"
    /\ \A i \in DOMAIN dir[1].lines :
         Search("re:error_response", dir[1].lines[i]) =>
           Count(issues, i, MsgNoCode)
             = IF \A k \in WindowLines(dir[1].lines, i, 10) :
                     ~Contains("Code", dir[1].lines[k])
                 THEN 1 ELSE 0

\* a trigger whose Code field lies on the last line of its window, and so
\* no finding
C8_Witness ==
  /\ Done
  /\ \E i \in DOMAIN dir[1].lines :
       /\ Search("re:error_response", dir[1].lines[i])
       /\ i + 10 <= Len(dir[1].lines)
       /\ Contains("Code", dir[1].lines[i + 10])
       /\ \A k \in i..(i + 9) : ~Contains("Code", dir[1].lines[k])
       /\ Count(issues, i, MsgNoCode) = 0

ErrorCodeExpected(lines, i) ==
  LET W == WindowLines(lines, i, 5)
  IN /\ \A k \in W : ~Contains("error_code", lines[k]) /\ ~Contains("ErrorCode", lines[k])
     /\ \E k \in W : \/ Contains("StatusInternalServerError", lines[k])
                     \/ Contains("StatusNotFound", lines[k])

RequestIdExpected(lines, i) ==
  LET W == WindowLines(lines, i, 5)
  IN /\ \A k \in W : ~Contains("request_id", lines[k]) /\ ~Contains("RequestID", lines[k])
     /\ \E k \in W : \/ Contains("StatusInternalServerError", lines[k])
                     \/ Contains("StatusNotFound", lines[k])
                     \/ Contains("StatusBadRequest", lines[k])

\* C7: for every line calling a logger's Error method, the error_code
\* warning is there exactly when the six lines from it on hold neither
\* error_code nor ErrorCode and name a 500 or 404 status, and the
\* request_id warning exactly when they hold neither request_id nor
\* RequestID and name a 500, 404 or 400 status, each decided on its own; a
\* window with error_code and request_id has neither.
C7_LogFields ==
  Done =>
    \A i \in DOMAIN dir[1].lines :
      Search("re:log_error", dir[1].lines[i]) =>
        /\ Count(issues, i, MsgErrorCode)
             = IF ErrorCodeExpected(dir[1].lines, i) THEN 1 ELSE 0
        /\ Count(issues, i, MsgRequestId)
             = IF RequestIdExpected(dir[1].lines, i) THEN 1 ELSE 0
        /\ (\E k \in WindowLines(dir[1].lines, i, 5) :
              Contains("error_code", dir[1].lines[k]))
           /\ (\E k \in WindowLines(dir[1].lines, i, 5) :
                 Contains("request_id", dir[1].lines[k]))
           => Count(issues, i, MsgErrorCode) + Count(issues, i, MsgRequestId) = 0

\* both warnings for the same log line
C7_Witness ==
  /\ Done
  /\ \E i \in DOMAIN dir[1].lines :
       /\ Search("re:log_error", dir[1].lines[i])
       /\ Count(issues, i, MsgErrorCode) = 1
       /\ Count(issues, i, MsgRequestId) = 1

\* no guard on any of the twenty lines after line i
NoGuardAfter(lines, i) ==
  \A k \in (i + 1)..(i + 20) : k <= Len(lines) => ~IsGuard(lines[k])

\* C2: in a file that references gorm, a line with a .First(...) call and
\* no error-check guard on any of the next 20 lines has exactly one
\* unchecked-query warning for that line.
C2_UnguardedFirst ==
  Done /\ has_gorm_import(dir[1].lines) =>
    \A i \in DOMAIN dir[1].lines :
      Search("re:First", dir[1].lines[i]) /\ NoGuardAfter(dir[1].lines, i) =>
        /\ Count(issues, i, MsgUnchecked) = 1
        /\ \A k \in DOMAIN issues :
             issues[k].line = i /\ issues[k].message = MsgUnchecked =>
               issues[k].severity = "warning"

\* C5: the unchecked-query warning is emitted only for a file that holds
\* 'gorm.io/gorm' or 'gorm.ErrRecordNotFound'; a file with neither has no
\* such warning, whatever the query.
C5_OnlyWithGorm ==
  Done /\ ~has_gorm_import(dir[1].lines) =>
    \A k \in DOMAIN issues : issues[k].message # MsgUnchecked

\* C10: no two findings of one scan have the same line and the same
\* message.
C10_NoDuplicates ==
  Done =>
    \A a, b \in DOMAIN issues :
      a < b =>
        ~(/\ issues[a].file = issues[b].file
          /\ issues[a].line = issues[b].line
          /\ issues[a].message = issues[b].message)

\* the rule a finding comes from, by its message
RuleOf(f) ==
  IF f.message = MsgGinH THEN 1
  ELSE IF f.message = MsgNoCode THEN 2
  ELSE IF f.message = MsgErrorCode THEN 4
  ELSE IF f.message = MsgRequestId THEN 5
  ELSE 3

\* C4 as stated: the findings of each single rule are in non-decreasing
\* line order, and the rules' findings follow in the fixed rule order.
C4_OrderPerRule ==
  Done =>
    \A a, b \in DOMAIN issues :
      a < b =>
        /\ RuleOf(issues[a]) <= RuleOf(issues[b])
        /\ RuleOf(issues[a]) = RuleOf(issues[b]) => issues[a].line <= issues[b].line

\* the findings of rule 3, in the order of the list
QueryIssues == SelectSeq(issues, LAMBDA f : RuleOf(f) = 3)

\* the pass (pattern) position k of QueryIssues falls into under the cuts
PassOf(k, c1, c2, c3) ==
  IF k <= c1 THEN 1 ELSE IF k <= c2 THEN 2 ELSE IF k <= c3 THEN 3 ELSE 4

\* a query line matching the pattern that accounts for finding f
TriggerFor(f, pattern) ==
  IF f.message = MsgUnchecked
    THEN Search(pattern, LinesOf(f)[f.line])
    ELSE \E i \in 1..(f.line - 1) :
           Search(pattern, LinesOf(f)[i]) /\ f.line - i <= 20

\* C4 amended: the rules' findings follow in the fixed rule order; the
\* findings of rules 1, 2, 4 and 5 are each in non-decreasing line order;
\* the findings of rule 3 are four consecutive passes, one per query
\* pattern in the order First, Find, GetByID, GetBy, each pass in
\* non-decreasing line order.
C4_OrderPerPass ==
  Done =>
    /\ \A a, b \in DOMAIN issues :
         a < b =>
           /\ RuleOf(issues[a]) <= RuleOf(issues[b])
           /\ RuleOf(issues[a]) = RuleOf(issues[b]) /\ RuleOf(issues[a]) # 3
                => issues[a].line <= issues[b].line
    /\ LET S == QueryIssues
           n == Len(S)
       IN \E c1, c2, c3 \in 0..n :
            /\ c1 <= c2 /\ c2 <= c3
            /\ \A k \in 1..n :
                 TriggerFor(S[k], db_query_patterns[PassOf(k, c1, c2, c3)])
            /\ \A a, b \in 1..n :
                 a < b /\ PassOf(a, c1, c2, c3) = PassOf(b, c1, c2, c3)
                   => S[a].line <= S[b].line

\* the Find pass reports a line above the line the First pass reported
C4_Witness ==
  /\ Done
  /\ \E a, b \in DOMAIN issues :
       /\ a < b
       /\ issues[a].message = MsgUnchecked
       /\ issues[b].message = MsgUnchecked
       /\ issues[a].line > issues[b].line

\* the 0-based indices of a slice lines[lo:hi] as Python resolves it
SliceIndices(lines, lo, hi) == {j \in lo..(hi - 1) : j < Len(lines)}

\* C9: no trigger, on the last line or near it, makes a rule read a line
\* index outside the file: the guard scan stays within the file, every
\* window is the file's lines from the trigger to the end of the span or
\* of the file, the scan ends without an exception, and every finding of
\* a rule has a line number in 1..len(lines).
C9_WithinFile ==
  /\ pc # "crashed"
  /\ \A p \in DOMAIN dir :
       dir[p].readable =>
         LET lines == dir[p].lines
         IN \A i \in DOMAIN lines :
              /\ (\E q \in DOMAIN db_query_patterns :
                    Search(db_query_patterns[q], lines[i]))
                   => /\ \A j \in GuardRange(lines, i) : 0 <= j /\ j < Len(lines)
                      /\ ~GuardScanRaises(lines, i)
                      /\ LET start == err_check_start(lines, i)
                         IN /\ start < Len(lines)
                            /\ start # 0 =>
                                 Len(ErrorBlock(lines, start))
                                   = Cardinality(SliceIndices(lines, start, start + 15))
              /\ Len(EnvelopeWindow(lines, i))
                   = Cardinality(SliceIndices(lines, i - 1, i + 5))
              /\ Len(CodeWindow(lines, i))
                   = Cardinality(SliceIndices(lines, i - 1, i + 10))
              /\ Len(LogWindow(lines, i))
                   = Cardinality(SliceIndices(lines, i - 1, i + 5))
  /\ \A k \in DOMAIN issues :
       dir[issues[k].file].readable =>
         issues[k].line \in 1..Len(LinesOf(issues[k]))

\* a scan that ended, of a file whose last line is a query (its guard scan
\* has no line to look at), with a finding whose window the end of the
\* file cut short
C9_Witness ==
  /\ Done
  /\ LET lines == dir[1].lines
     IN /\ Search("re:Find", lines[Len(lines)])
        /\ GuardRange(lines, Len(lines)) = {}
        /\ \E k \in DOMAIN issues : issues[k].line + 5 > Len(lines)

====
